---- MODULE Spec2Model ----
(***************************************************************************)
(* Task Manager (AshlinJoshy/Task-Manager): the task store of useTasks,    *)
(* the week / unscheduled / completed-history projections of App and       *)
(* WeekView, and the handlers that route user intents into the store.      *)
(*                                                                         *)
(* Time.  An instant is a number of hours since the epoch (UTC); a day is  *)
(* a number of days since the epoch, and day 0 is a Sunday.  The browser's *)
(* time zone is tz hours ahead of UTC and its clock shows `hour` o'clock   *)
(* of day Today during the run.  Minutes and seconds are dropped.          *)
(*                                                                         *)
(* Text.  A string that the handlers take apart is a record                *)
(*   [groups |-> the hyphen-separated groups it starts with,               *)
(*    stamp  |-> the date text that follows them]                          *)
(* so a UUID is five groups and no stamp, "2024-01-03" is no groups and a  *)
(* date stamp, and the key `${task.id}-${completion}` of a history entry   *)
(* is the task's groups followed by the completion's stamp.                *)
(*                                                                         *)
(* Store.  tasks and projects are the state of the App's useTasks; seen is *)
(* the projects list the current render's closures hold (the handlers test *)
(* it, the state updaters append to the latest list).  storage is what     *)
(* lies under the two localStorage keys and status tells whether the       *)
(* start-up read of it succeeded.                                          *)
(*                                                                         *)
(* View.  filters holds App's projectFilter and priorityFilter.            *)
(*                                                                         *)
(* Registry.  ProjectSelect calls useTasks() for itself: registry.select   *)
(* is the projects list of that instance while the form is open            *)
(* (registry.open), and registry.blob is the list under the 'projects' key *)
(* of localStorage, written by whichever instance changed its list last.   *)
(* registry.gone are the names deleted in the selector and not added since.*)
(***************************************************************************)
EXTENDS Integers, Sequences, FiniteSets, TLC

VARIABLES tasks, projects, seen, storage, status, nextId, tz, hour, selectedDate, last, steps,
          filters, registry

vars == <<tasks, projects, seen, storage, status, nextId, tz, hour, selectedDate, last, steps,
          filters, registry>>

----------------------------------------------------------------------------
(* Bounds of the model *)

\* the wall-clock day of the session (day 10 is a Wednesday)
Today == 10
\* how many tasks the form may create in one run (ids 1..MaxCreated)
MaxCreated == 2
\* how many completion timestamps one task may hold
MaxCompletions == 2
\* how many user actions one run takes
MaxSteps == 3
\* how many weeks past the current one the week grid is turned to
MaxWeeksAhead == 1

\* the local wall-clock hour of the session: early morning or late evening
Hours == {2, 22}
\* time-zone offsets of the browser, in hours ahead of UTC
TzOffsets == {0 - 5, 0, 5}

----------------------------------------------------------------------------
(* Program constants *)

\* WeekView: const DAYS_OF_WEEK = 7
DAYS_OF_WEEK == 7
\* uuid v4 text: 8-4-4-4-12, five groups separated by hyphens
UuidGroups == 5

----------------------------------------------------------------------------
(* Date text and the Date operations the code uses *)

\* an absent (undefined) date string
NoStamp == [k |-> "undefined", d |-> 0, h |-> 0]
\* the text 'yyyy-MM-dd' of day d
DateStamp(d) == [k |-> "date", d |-> d, h |-> 0]
\* Date.prototype.toISOString(): the UTC date and time of instant t
toISOString(t) == [k |-> "iso", d |-> t \div 24, h |-> t % 24]

\* the instant at which the local clock shows hour h of Today
At(h) == Today * 24 + h - tz
\* new Date(): the session runs within one hour of Today
Now == At(hour)
\* new Date(s): a date-only ISO string is UTC midnight, a full one its instant
NewDate(s) == IF s.k = "date" THEN s.d * 24 ELSE s.d * 24 + s.h
\* the local calendar day of instant t
LocalDay(t) == (t + tz) \div 24
\* date.getHours(): the local hour of instant t
getHours(t) == (t + tz) % 24
\* date.setHours(h, ...): hour h of the local calendar day of t
setHours(t, h) == LocalDay(t) * 24 + h - tz
\* date-fns parseISO: a date-only string is local midnight, a full one its instant
parseISO(s) == IF s.k = "date" THEN s.d * 24 - tz ELSE s.d * 24 + s.h
\* date-fns format(t, 'yyyy-MM-dd'): the local calendar day as text
formatDate(t) == DateStamp(LocalDay(t))
\* date-fns getDay: 0 = Sunday .. 6 = Saturday, of the local calendar day
getDay(t) == LocalDay(t) % DAYS_OF_WEEK
\* date-fns startOfDay: local midnight
startOfDay(t) == LocalDay(t) * 24 - tz
\* date-fns addDays
addDays(t, n) == t + n * 24
\* date-fns startOfWeek(t, {weekStartsOn: 1}): local midnight of the Monday
startOfWeek(t) == addDays(startOfDay(t), 0 - ((getDay(t) + 6) % DAYS_OF_WEEK))

\* s.split('T')[0] of a date or ISO string: its 'yyyy-MM-dd' part
DatePart(s) == DateStamp(s.d)
\* c.startsWith(datePart) for a stored completion c
startsWith(c, datePart) == c.k # "undefined" /\ c.d = datePart.d

----------------------------------------------------------------------------
(* Strings: ids, history keys and their splitting *)

Str(groups, stamp) == [groups |-> groups, stamp |-> stamp]
\* uuidv4(): the n-th id handed out; ids share their middle groups
Uuid(n) == Str([i \in 1..UuidGroups |-> IF i = 1 \/ i = UuidGroups THEN n ELSE 0], NoStamp)
\* the text of a date, as the argument toggleTask takes
DateStr(d) == Str(<<>>, DateStamp(d))
\* undefined, as an absent string argument
NoStr == Str(<<>>, NoStamp)
\* `${id}-${completionDateStr}`
CompositeId(id, c) == Str(id.groups, c)
\* s.includes('-'): two groups are joined by one, and date text contains them
includesHyphen(s) == Len(s.groups) > 1 \/ s.stamp.k # "undefined"
\* s.split(/-(.+)/)[0] and s.split('-')[0]: the text before the first hyphen
beforeFirstHyphen(s) ==
  IF s.groups # <<>> THEN Str(<<Head(s.groups)>>, NoStamp) ELSE Str(<<>>, NoStamp)
\* s.split(/-(.+)/)[1]: the text after the first hyphen
afterFirstHyphen(s) ==
  IF s.groups # <<>> THEN Str(Tail(s.groups), s.stamp) ELSE Str(<<>>, NoStamp)
\* a string that is date text only (what new Date and split('T') can read)
IsDateText(s) == s.groups = <<>> /\ s.stamp.k # "undefined"

----------------------------------------------------------------------------
(* The task store: useTasks *)

\* an absent optional string (projectName)
Undefined == "undefined"
\* an absent `progress` (TaskCard reads it as task.progress || 0)
NoProgress == -1
\* an absent `order` (no code of the repository writes the field)
NoOrder == -1
\* task.recurrence absent, and a weekly recurrence on a set of weekdays
NoRecurrence == [on |-> FALSE, days |-> {}]
Weekly(days) == [on |-> TRUE, days |-> days]

\* { ...task, ...updates }: the fields updates names replace the task's
Merge(task, updates) ==
  [f \in DOMAIN task |-> IF f \in DOMAIN updates THEN updates[f] ELSE task[f]]

\* `if (name && !projects.includes(name)) setProjects(prev => [...prev, name])`:
\* the test reads the list of the render's closure, the updater the latest list
registerProject(closure, prev, name) ==
  IF name # Undefined /\ name # "" /\ \A i \in DOMAIN closure : closure[i] # name
  THEN Append(prev, name)
  ELSE prev

\* deleteProject with a filter that keeps every name
deleteProject_keepsName(prev, name) == prev

\* deleteProject: prev.filter(p => p !== name)
deleteProject(prev, name) ==
  LET F[n \in 0..Len(prev)] ==
        IF n = 0 THEN <<>>
        ELSE IF prev[n] # name THEN Append(F[n - 1], prev[n]) ELSE F[n - 1]
  IN F[Len(prev)]

\* addTask: the new task, built from the form's data
newTask(taskData, id, now) ==
  [id |-> id,
   title |-> taskData.title,
   priority |-> taskData.priority,
   durationCategory |-> taskData.durationCategory,
   projectName |-> taskData.projectName,
   dueDate |-> taskData.dueDate,
   recurrence |-> taskData.recurrence,
   progress |-> NoProgress,
   order |-> NoOrder,
   createdAt |-> toISOString(now),
   completed |-> FALSE,
   completedDate |-> NoStamp,
   completions |-> <<>>]

addTask(ts, taskData, id, now) == Append(ts, newTask(taskData, id, now))

\* completions.findIndex(c => c.startsWith(datePart)): 0 when there is none
findIndex(completions, datePart) ==
  IF \E i \in DOMAIN completions : startsWith(completions[i], datePart)
  THEN CHOOSE i \in DOMAIN completions :
         /\ startsWith(completions[i], datePart)
         /\ \A j \in 1..(i - 1) : ~startsWith(completions[j], datePart)
  ELSE 0

\* newCompletions.splice(i, 1)
splice(s, i) == [j \in 1..(Len(s) - 1) |-> IF j < i THEN s[j] ELSE s[j + 1]]

\* toggleTask, recurring branch: the completion appended for dateStr at instant now
completionFor(dateStr, now) ==
  toISOString(setHours(NewDate(dateStr.stamp), getHours(now)))

\* toggleOne with the regular branch keeping completedDate when it un-completes
toggleOne_keepsCompletedDate(task, dateStr, now) ==
  IF task.recurrence.on /\ dateStr # NoStr
  THEN IF ~IsDateText(dateStr)
       THEN task
       ELSE LET existingCompletionIndex == findIndex(task.completions, DatePart(dateStr.stamp))
            IN IF existingCompletionIndex > 0
               THEN [task EXCEPT !.completions = splice(@, existingCompletionIndex)]
               ELSE [task EXCEPT !.completions = Append(@, completionFor(dateStr, now))]
  ELSE LET isCompleted == ~task.completed
       IN [task EXCEPT !.completed = isCompleted,
                       !.completedDate = IF isCompleted THEN toISOString(now) ELSE @]

\* toggleTask, the body of the map callback for the task whose id matches
toggleOne(task, dateStr, now) ==
  IF task.recurrence.on /\ dateStr # NoStr
  THEN IF ~IsDateText(dateStr)
       THEN task  \* new Date(dateStr) is invalid and toISOString throws: no update
       ELSE LET existingCompletionIndex == findIndex(task.completions, DatePart(dateStr.stamp))
            IN IF existingCompletionIndex > 0
               THEN [task EXCEPT !.completions = splice(@, existingCompletionIndex)]
               ELSE [task EXCEPT !.completions = Append(@, completionFor(dateStr, now))]
  ELSE LET isCompleted == ~task.completed
       IN [task EXCEPT !.completed = isCompleted,
                       !.completedDate = IF isCompleted THEN toISOString(now) ELSE NoStamp]

toggleTask(ts, id, dateStr, now) ==
  [i \in DOMAIN ts |-> IF ts[i].id # id THEN ts[i] ELSE toggleOne(ts[i], dateStr, now)]

updateTask(ts, id, updates) ==
  [i \in DOMAIN ts |-> IF ts[i].id = id THEN Merge(ts[i], updates) ELSE ts[i]]

\* deleteTask that drops the first task when no task has the id
deleteTask_dropsFirstWhenMissing(ts, id) ==
  IF \A i \in DOMAIN ts : ts[i].id # id
  THEN SubSeq(ts, 2, Len(ts))
  ELSE [i \in 1..Cardinality({j \in DOMAIN ts : ts[j].id # id}) |->
          ts[CHOOSE k \in DOMAIN ts :
               /\ ts[k].id # id
               /\ Cardinality({j \in 1..k : ts[j].id # id}) = i]]

\* prev.filter(task => task.id !== id)
deleteTask(ts, id) ==
  LET keep == {i \in DOMAIN ts : ts[i].id # id}
      F[n \in 0..Len(ts)] ==
        IF n = 0 THEN <<>>
        ELSE IF n \in keep THEN Append(F[n - 1], ts[n]) ELSE F[n - 1]
  IN F[Len(ts)]

\* what may lie under a localStorage key when the app starts: nothing, the JSON of
\* an array, text that is not JSON, the JSON of a value that is not an array
Blobs == {"null", "array", "malformed", "object"}
\* a key as the save effects leave it: JSON.stringify of the state's array
Saved == "array"

\* the useState initialiser `stored ? JSON.parse(stored) : []`: JSON.parse throws on
\* text that is not JSON, and whatever it returns becomes the state as it is
readBlob(blob) ==
  CASE blob = "null" -> "array"
    [] blob = "array" -> "array"
    [] blob = "malformed" -> "throws"
    [] blob = "object" -> "notArray"

\* useTasks and the first render, given the two blobs: a thrown initialiser, or a
\* state that is not an array (tasks.filter, projects.map throw), ends the app
startUp(tasksBlob, projectsBlob) ==
  IF readBlob(tasksBlob) = "array" /\ readBlob(projectsBlob) = "array"
  THEN "loaded"
  ELSE "failed"

\* the two keys once start-up is over: saved by the effects when the app loaded
storageAfter(tasksBlob, projectsBlob) ==
  IF startUp(tasksBlob, projectsBlob) = "loaded"
  THEN [tasks |-> Saved, projects |-> Saved]
  ELSE [tasks |-> tasksBlob, projects |-> projectsBlob]

\* tasks.find(t => t.id === id): the index of the first match, 0 when none
findTask(ts, id) ==
  IF \E i \in DOMAIN ts : ts[i].id = id
  THEN CHOOSE i \in DOMAIN ts : ts[i].id = id /\ \A j \in 1..(i - 1) : ts[j].id # id
  ELSE 0

----------------------------------------------------------------------------
(* The projections: App (buckets) and WeekView (tasksByDate) *)

Range(s) == {s[i] : i \in DOMAIN s}

\* Array.prototype.filter: the elements of s that are in keep, in the order of s
Filter(s, keep) ==
  LET kept(x) == x \in keep
  IN SelectSeq(s, kept)

\* Array.prototype.sort with the comparator (a, b) => key[a] - key[b]: stable
SortBy(s, key) ==
  LET Insert(sorted, x) ==
        LET before == {i \in DOMAIN sorted : key[sorted[i]] <= key[x]}
            n == Cardinality(before)
        IN SubSeq(sorted, 1, n) \o <<x>> \o SubSeq(sorted, n + 1, Len(sorted))
      F[n \in 0..Len(s)] == IF n = 0 THEN <<>> ELSE Insert(F[n - 1], s[n])
  IN F[Len(s)]

\* const priorities = { Constant: 0, High: 1, Medium: 2, Low: 3 }
priorities(p) ==
  CASE p = "Constant" -> 0 [] p = "High" -> 1 [] p = "Medium" -> 2 [] p = "Low" -> 3

truthy(stamp) == stamp.k # "undefined"

\* the values of the two filter <select>s that disable a filter and that stand for
\* the tasks without project
AllFilter == "all"
NoProjectFilter == "No Project"

\* App.filteredTasks: the test of one task
passesFilters(t) ==
  /\ filters.project # AllFilter =>
       IF filters.project = NoProjectFilter
       THEN t.projectName \in {Undefined, ""}
       ELSE t.projectName = filters.project
  /\ filters.priority # AllFilter => t.priority = filters.priority

\* App.filteredTasks
filteredTasks(ts) == SelectSeq(ts, passesFilters)
activeTasks(ts) == Filter(filteredTasks(ts), {t \in Range(ts) : ~t.completed})
completedTasks(ts) == Filter(filteredTasks(ts), {t \in Range(ts) : t.completed})

\* App.recurringCompletions: one synthetic task per completion of a recurring task
syntheticEntry(t, c) ==
  [t EXCEPT !.id = CompositeId(t.id, c),
            !.completed = TRUE,
            !.completedDate = c,
            !.recurrence = NoRecurrence,
            !.dueDate = NoStamp]

recurringCompletions(ts) ==
  LET src == Filter(filteredTasks(ts),
                    {t \in Range(ts) : t.recurrence.on /\ Len(t.completions) > 0})
      F[n \in 0..Len(src)] ==
        IF n = 0 THEN <<>>
        ELSE F[n - 1] \o [k \in DOMAIN src[n].completions |->
                            syntheticEntry(src[n], src[n].completions[k])]
  IN F[Len(src)]

\* a history of the completed tasks alone
allCompletedTasks_plainOnly(ts) ==
  LET all == completedTasks(ts)
  IN SortBy(all, [t \in Range(all) |->
                    IF truthy(t.completedDate) THEN 0 - NewDate(t.completedDate) ELSE 0])

\* App.allCompletedTasks, sorted by completed date, latest first
allCompletedTasks(ts) ==
  LET all == completedTasks(ts) \o recurringCompletions(ts)
  IN SortBy(all, [t \in Range(all) |->
                    IF truthy(t.completedDate) THEN 0 - NewDate(t.completedDate) ELSE 0])

\* the unscheduled list left in the order of the stored tasks
unscheduledTasks_unsorted(ts) ==
  Filter(activeTasks(ts), {t \in Range(ts) : ~truthy(t.dueDate) /\ ~t.recurrence.on})

\* App.unscheduledTasks: filtered, then sorted by priority
unscheduledTasks(ts) ==
  SortBy(Filter(activeTasks(ts), {t \in Range(ts) : ~truthy(t.dueDate) /\ ~t.recurrence.on}),
         [t \in Range(ts) |-> priorities(t.priority)])

\* a scheduled list that keeps the completed tasks
scheduledTasks_keepsCompleted(ts) ==
  Filter(filteredTasks(ts), {t \in Range(ts) : truthy(t.dueDate) \/ t.recurrence.on})

\* App.scheduledTasks: the tasks handed to the week grid
scheduledTasks(ts) ==
  Filter(filteredTasks(ts),
         {t \in Range(ts) : (truthy(t.dueDate) \/ t.recurrence.on) /\ ~t.completed})

\* WeekView.weekDays: the seven days of the week of sel, Monday first
weekDays(sel) ==
  [i \in 1..DAYS_OF_WEEK |->
     LET date == addDays(startOfWeek(sel), i - 1)
     IN [date |-> date, dayIndex |-> getDay(date), dateStr |-> formatDate(date)]]

\* a card of the week grid: the task and, for an occurrence, its _virtualDate
Card(task, virtualDate) == [task |-> task, virtualDate |-> virtualDate]

\* WeekView.tasksByDate: does task go into the bucket of day (a weekDays entry)?
inDay(task, day) ==
  IF task.recurrence.on
  THEN /\ day.dayIndex \in task.recurrence.days
       /\ ~\E k \in DOMAIN task.completions : startsWith(task.completions[k], day.dateStr)
  ELSE /\ truthy(task.dueDate)
       /\ ~task.completed
       /\ formatDate(parseISO(task.dueDate)) = day.dateStr

\* a grid that puts only 'short' into short
bucketOf_onlyShortIsShort(task) == IF task.durationCategory = "short" THEN "short" ELSE "long"

\* WeekView: 'time-consuming' goes to long, everything else to short
bucketOf(task) == IF task.durationCategory = "time-consuming" THEN "long" ELSE "short"

\* WeekView.tasksByDate, then the render's sort: the cards of one sub-bucket
dayBucket(ts, sel, i, bucket) ==
  LET day == weekDays(sel)[i]
      src == Filter(scheduledTasks(ts),
                    {t \in Range(ts) : inDay(t, day) /\ bucketOf(t) = bucket})
      sorted == SortBy(src, [t \in Range(ts) |-> priorities(t.priority)])
  IN [k \in DOMAIN sorted |->
        Card(sorted[k], IF sorted[k].recurrence.on THEN Str(<<>>, day.dateStr) ELSE NoStr)]

Buckets == {"short", "long"}

\* every card the week grid shows for the week of sel
weekCards(ts, sel) ==
  UNION {Range(dayBucket(ts, sel, i, b)) : i \in 1..DAYS_OF_WEEK, b \in Buckets}

\* an overdue banner that counts the tasks due today in
overdueTasks_countsToday(ts, now) ==
  Filter(filteredTasks(ts),
         {t \in Range(ts) : /\ truthy(t.dueDate)
                             /\ ~t.completed
                             /\ ~t.recurrence.on
                             /\ parseISO(t.dueDate) <= startOfDay(now)})

\* App: the overdue banner's tasks
overdueTasks(ts, now) ==
  Filter(filteredTasks(ts),
         {t \in Range(ts) : /\ truthy(t.dueDate)
                             /\ ~t.completed
                             /\ ~t.recurrence.on
                             /\ parseISO(t.dueDate) < startOfDay(now)})

----------------------------------------------------------------------------
(* The handlers that route user intents: TaskForm, App, WeekView, TaskCard *)

\* handleSubmit with the recurring branch leaving the date input's value in the data
handleSubmit_keepsDueDate(form) ==
  [title |-> form.title,
   priority |-> form.priority,
   durationCategory |-> form.durationCategory,
   projectName |-> form.projectName,
   recurrence |-> IF form.isRecurring THEN Weekly(form.recurringDays) ELSE NoRecurrence,
   dueDate |-> form.dueDate]

\* TaskForm.handleSubmit: the data handed to onSubmit for a form state
handleSubmit(form) ==
  [title |-> form.title,
   priority |-> form.priority,
   durationCategory |-> form.durationCategory,
   projectName |-> form.projectName,
   recurrence |-> IF form.isRecurring THEN Weekly(form.recurringDays) ELSE NoRecurrence,
   dueDate |-> IF form.isRecurring THEN NoStamp ELSE form.dueDate]

\* a form that is submitted although a required input is empty
checkValidity_none(form) == TRUE

\* the submit button of TaskForm's <form>: the title input is `required`, and a form
\* with a required input left empty reports it to the user and fires no submit event
checkValidity(form) == form.title # ""

\* ids of drop targets, as text: a date text followed by a suffix
\* App.DroppableUnscheduled: id 'unscheduled-zone'
UnscheduledZone == [date |-> NoStamp, suffix |-> "unscheduled-zone"]
\* WeekView.Zone: id `${day.dateStr}:${type}`
ZoneId(dateStr, type) == [date |-> dateStr, suffix |-> type]
\* WeekView.DroppableDay (the grid without sub-buckets): id date.toISOString()
DayId(date) == [date |-> toISOString(date), suffix |-> ""]

\* isValid(parseISO(over.id)): text with anything but a date and time in it has no date
isValidDrop(over) == over.suffix = "" /\ truthy(over.date)

\* App.handleDragEnd: the tasks after dropping taskId on over
handleDragEnd(ts, taskId, over) ==
  LET i == findTask(ts, taskId)
  IN IF i = 0 \/ ts[i].recurrence.on THEN ts
     ELSE IF over = UnscheduledZone
          THEN IF truthy(ts[i].dueDate) THEN updateTask(ts, taskId, [dueDate |-> NoStamp]) ELSE ts
          ELSE IF isValidDrop(over) /\ ts[i].dueDate # over.date
               THEN updateTask(ts, taskId, [dueDate |-> over.date])
               ELSE ts

\* handleTaskMove without its test of task.recurrence
handleTaskMove_noRecurrenceTest(ts, taskId, newDate) ==
  LET i == findTask(ts, taskId)
  IN IF i # 0
     THEN updateTask(ts, taskId, [dueDate |-> toISOString(newDate)])
     ELSE ts

\* App.handleTaskMove (the grid that owns its DndContext): move taskId to newDate
handleTaskMove(ts, taskId, newDate) ==
  LET i == findTask(ts, taskId)
  IN IF i # 0 /\ ~ts[i].recurrence.on
     THEN updateTask(ts, taskId, [dueDate |-> toISOString(newDate)])
     ELSE ts

\* App, completed list, onToggle: the toggleTask call a history card makes
historyToggle(ts, toggleId, now) ==
  IF includesHyphen(toggleId)
  THEN toggleTask(ts, beforeFirstHyphen(toggleId), afterFirstHyphen(toggleId), now)
  ELSE toggleTask(ts, toggleId, NoStr, now)

\* App, completed list, onDelete
historyDelete(ts, cardId) ==
  IF includesHyphen(cardId)
  THEN deleteTask(ts, beforeFirstHyphen(cardId))
  ELSE deleteTask(ts, cardId)

\* a "Move to Today" that moves the first overdue task only
moveOverdueToToday_firstOnly(ts, now) ==
  LET od == overdueTasks(ts, now)
  IN IF Len(od) = 0 THEN ts
     ELSE updateTask(ts, od[1].id, [dueDate |-> toISOString(now)])

\* App.moveOverdueToToday
moveOverdueToToday(ts, now) ==
  LET od == overdueTasks(ts, now)
      F[n \in 0..Len(od)] ==
        IF n = 0 THEN ts
        ELSE updateTask(F[n - 1], od[n].id, [dueDate |-> toISOString(now)])
  IN F[Len(od)]

\* a "Clear All" that deletes whatever confirm() answers
clearOverdueTasks_noConfirm(ts, now, ok) ==
  LET od == overdueTasks(ts, now)
      F[n \in 0..Len(od)] == IF n = 0 THEN ts ELSE deleteTask(F[n - 1], od[n].id)
  IN F[Len(od)]

\* App.clearOverdueTasks, confirm() having answered ok
clearOverdueTasks(ts, now, ok) ==
  LET od == overdueTasks(ts, now)
      F[n \in 0..Len(od)] == IF n = 0 THEN ts ELSE deleteTask(F[n - 1], od[n].id)
  IN IF ok THEN F[Len(od)] ELSE ts

----------------------------------------------------------------------------
(* What the user can enter *)

\* what the title input holds at submit: a title, or nothing
Titles == {"t", ""}
FormPriorities == {"Medium"}
FormDurations == {"short", "time-consuming"}
\* the project picked in ProjectSelect: none, or the name "p"
FormProjects == {Undefined, "p"}
\* the weekdays the form's day buttons are left at: today's and the one two days
\* before it (Wednesday and Monday when Today is a Wednesday)
FormDaySets == {{Today % DAYS_OF_WEEK, (Today - 2) % DAYS_OF_WEEK}}
\* what the date input holds: nothing, yesterday or today
FormDates == {NoStamp, DateStamp(Today - 1), DateStamp(Today)}
\* the value the progress slider is dragged to (step 10 between 0 and 100)
ProgressValues == {50}

\* the names typed into ProjectSelect's "new project" input
ProjectNames == {"p", "q"}
\* the forms submitted with a project picked: short tasks with no date, one-off or
\* recurring
ProjectForms ==
  [title : Titles, priority : FormPriorities, durationCategory : {"short"},
   projectName : FormProjects \ {Undefined}, isRecurring : {FALSE}, recurringDays : {{}},
   dueDate : {NoStamp}]
  \cup
  [title : Titles, priority : FormPriorities, durationCategory : {"short"},
   projectName : FormProjects \ {Undefined}, isRecurring : {TRUE},
   recurringDays : FormDaySets, dueDate : {NoStamp}]

\* the form's state at submit; switching to recurring hides the date input but keeps
\* what it held
FormStates ==
  [title : Titles, priority : FormPriorities, durationCategory : FormDurations,
   projectName : {Undefined}, isRecurring : {FALSE}, recurringDays : {{}},
   dueDate : FormDates]
  \cup
  [title : Titles, priority : FormPriorities, durationCategory : FormDurations,
   projectName : {Undefined}, isRecurring : {TRUE}, recurringDays : FormDaySets,
   dueDate : {NoStamp, DateStamp(Today)}]

\* the days a card is dropped on, counted from Today: tomorrow
DropOffsets == {1}

----------------------------------------------------------------------------
(* The state machine *)

\* what the last handler was called with, and the tasks and projects it found
Last(op, id, arg) ==
  [op |-> op, id |-> id, arg |-> arg, name |-> Undefined, pre |-> tasks, prePs |-> projects]
\* the same for a call that names a project
LastNamed(op, id, name) ==
  [op |-> op, id |-> id, arg |-> NoStr, name |-> name, pre |-> tasks, prePs |-> projects]

Init ==
  /\ tasks = <<>>
  /\ projects = <<>>
  /\ seen = <<>>
  /\ \E tasksBlob \in Blobs, projectsBlob \in Blobs :
       /\ status = startUp(tasksBlob, projectsBlob)
       /\ storage = storageAfter(tasksBlob, projectsBlob)
  /\ nextId = 1
  /\ tz \in TzOffsets
  /\ hour \in Hours
  /\ selectedDate = startOfDay(At(0))
  /\ last = [op |-> "init", id |-> NoStr, arg |-> NoStr, name |-> Undefined,
             pre |-> <<>>, prePs |-> <<>>]
  /\ steps = 0
  /\ filters = [project |-> AllFilter, priority |-> AllFilter]
  /\ registry = [blob |-> <<>>, select |-> <<>>, open |-> FALSE, gone |-> {}]

\* no task holds more than MaxCompletions completions
Capped(ts) == \A i \in DOMAIN ts : Len(ts[i].completions) <= MaxCompletions

\* the cards with an edit button: every stored task and every history entry
editCards(ts) == Range(ts) \cup Range(allCompletedTasks(ts))

\* the form is submitted with no task being edited: App.handleFormSubmit -> addTask
Create(forms) ==
  \E form \in forms :
    /\ checkValidity(form)
    /\ nextId <= MaxCreated
    /\ tasks' = addTask(tasks, handleSubmit(form), Uuid(nextId), Now)
    /\ projects' = registerProject(seen, projects, handleSubmit(form).projectName)
    /\ nextId' = nextId + 1
    /\ last' = LastNamed("create", Uuid(nextId), handleSubmit(form).projectName)
    /\ UNCHANGED <<tz, hour, selectedDate>>

CreateTask == Create(FormStates)

\* the form is submitted for the card being edited: App.handleFormSubmit -> updateTask.
\* The form opens with the card's values; the user changes its schedule and leaves
\* the duration category as it is.
Edit(forms) ==
  \E card \in editCards(tasks), form \in forms :
    /\ checkValidity(form)
    /\ form.durationCategory = card.durationCategory
    /\ tasks' = updateTask(tasks, card.id, handleSubmit(form))
    /\ projects' = registerProject(seen, projects, handleSubmit(form).projectName)
    /\ last' = LastNamed("edit", card.id, handleSubmit(form).projectName)
    /\ UNCHANGED <<nextId, tz, hour, selectedDate>>

EditTask == Edit(FormStates)

\* the form is submitted with the title input empty: handleSubmit does not run
SubmitBlocked ==
  \E form \in FormStates \cup ProjectForms :
    /\ ~checkValidity(form)
    /\ last' = LastNamed("invalid", NoStr, form.projectName)
    /\ UNCHANGED <<tasks, projects, nextId, tz, hour, selectedDate>>

\* the check box of a card of the week grid: onToggle(id, task._virtualDate)
ToggleWeekCard ==
  \E c \in weekCards(tasks, selectedDate) :
    /\ Capped(toggleTask(tasks, c.task.id, c.virtualDate, Now))
    /\ tasks' = toggleTask(tasks, c.task.id, c.virtualDate, Now)
    /\ last' = Last("toggle", c.task.id, c.virtualDate)
    /\ UNCHANGED <<projects, nextId, tz, hour, selectedDate>>

\* the check box of a card of the list view or of the unscheduled list: toggleTask(id)
ToggleCard ==
  \E t \in Range(scheduledTasks(tasks)) \cup Range(unscheduledTasks(tasks)) :
    /\ tasks' = toggleTask(tasks, t.id, NoStr, Now)
    /\ last' = Last("toggle", t.id, NoStr)
    /\ UNCHANGED <<projects, nextId, tz, hour, selectedDate>>

\* the check box of a card of the completed list
ToggleHistory ==
  \E e \in Range(allCompletedTasks(tasks)) :
    /\ tasks' = historyToggle(tasks, e.id, Now)
    /\ last' = Last("historyToggle", e.id, NoStr)
    /\ UNCHANGED <<projects, nextId, tz, hour, selectedDate>>

\* the delete button of a card of the week grid, the list view or the unscheduled list
DeleteCard ==
  \E t \in Range(scheduledTasks(tasks)) \cup Range(unscheduledTasks(tasks)) :
    /\ tasks' = deleteTask(tasks, t.id)
    /\ last' = Last("delete", t.id, NoStr)
    /\ UNCHANGED <<projects, nextId, tz, hour, selectedDate>>

\* the delete button of a card of the completed list
DeleteHistory ==
  \E e \in Range(allCompletedTasks(tasks)) :
    /\ tasks' = historyDelete(tasks, e.id)
    /\ last' = Last("historyDelete", e.id, NoStr)
    /\ UNCHANGED <<projects, nextId, tz, hour, selectedDate>>

\* the days of the week of sel that cards are dropped on
dropDays(sel) ==
  {i \in 1..DAYS_OF_WEEK :
     \E o \in DropOffsets : weekDays(sel)[i].dateStr = DateStamp(Today + o)}

\* the drop targets on screen: the unscheduled zone and the days of the viewed week
dropTargets(sel) ==
  {UnscheduledZone}
    \cup {ZoneId(weekDays(sel)[i].dateStr, type) :
            i \in dropDays(sel), type \in {":short", ":time-consuming"}}
    \cup {DayId(weekDays(sel)[i].date) : i \in dropDays(sel)}

\* a drag ends over a drop target: the intent {draggedTaskId, dropTargetId}.  The
\* handler is handed the id of any stored task: the grids' draggables switch the
\* drag of recurring and completed tasks off, and the handler tests again.
DragEnd ==
  \E i \in DOMAIN tasks, over \in dropTargets(selectedDate) :
    /\ tasks' = handleDragEnd(tasks, tasks[i].id, over)
    /\ last' = Last("drag", tasks[i].id, over)
    /\ UNCHANGED <<projects, nextId, tz, hour, selectedDate>>

\* WeekView.handleDragEnd of the grid that owns its DndContext -> onTaskMove
TaskMove ==
  \E i \in DOMAIN tasks, d \in dropDays(Now) :
    /\ tasks' = handleTaskMove(tasks, tasks[i].id, weekDays(Now)[d].date)
    /\ last' = Last("move", tasks[i].id, DayId(weekDays(Now)[d].date))
    /\ UNCHANGED <<projects, nextId, tz, hour, selectedDate>>

\* the banner's "Move to Today"
MoveOverdue ==
  /\ Len(overdueTasks(tasks, Now)) > 0
  /\ tasks' = moveOverdueToToday(tasks, Now)
  /\ last' = Last("moveOverdue", NoStr, NoStr)
  /\ UNCHANGED <<projects, nextId, tz, hour, selectedDate>>

\* the banner's "Clear All", and the answer to its confirm()
ClearOverdue ==
  \E ok \in BOOLEAN :
    /\ Len(overdueTasks(tasks, Now)) > 0
    /\ tasks' = clearOverdueTasks(tasks, Now, ok)
    /\ last' = Last(IF ok THEN "clearOverdue" ELSE "clearDeclined", NoStr, NoStr)
    /\ UNCHANGED <<projects, nextId, tz, hour, selectedDate>>

\* TaskCard's progress slider, shown on the week grid's cards that get onUpdate
SetProgress ==
  \E c \in weekCards(tasks, selectedDate), val \in ProgressValues :
    /\ ~c.task.completed /\ ~c.task.recurrence.on
    /\ tasks' = updateTask(tasks, c.task.id, [progress |-> val])
    /\ last' = Last("progress", c.task.id, NoStr)
    /\ UNCHANGED <<projects, nextId, tz, hour, selectedDate>>

\* App.handleWeekChange('next' | 'prev' | 'today'); the view keeps the day it shows
WeekChange ==
  \E target \in {addDays(selectedDate, DAYS_OF_WEEK), addDays(selectedDate, 0 - DAYS_OF_WEEK),
                 startOfDay(Now)} :
    /\ target # selectedDate
    /\ LocalDay(target) \in Today..(Today + DAYS_OF_WEEK * MaxWeeksAhead)
    /\ selectedDate' = target
    /\ last' = Last("week", NoStr, NoStr)
    /\ UNCHANGED <<tasks, projects, nextId, tz, hour>>

\* useEffect(() => localStorage.setItem('projects', ...), [projects]): the key is
\* written when the instance's list has changed
saved(reg, prev, next) ==
  IF next = prev THEN reg ELSE [reg EXCEPT !.blob = next]

\* one more user action, while the run lasts; the app re-renders after the
\* handler (the closures hold the new projects list) and the effects save the state
Step ==
  /\ status = "loaded"
  /\ steps < MaxSteps
  /\ steps' = steps + 1
  /\ seen' = projects'
  /\ registry' = saved(registry, projects, projects')
  /\ UNCHANGED <<storage, status, filters>>

Next ==
  \/ CreateTask /\ Step
  \/ EditTask /\ Step
  \/ ToggleWeekCard /\ Step
  \/ ToggleCard /\ Step
  \/ ToggleHistory /\ Step
  \/ DeleteCard /\ Step
  \/ DeleteHistory /\ Step
  \/ DragEnd /\ Step
  \/ TaskMove /\ Step
  \/ MoveOverdue /\ Step
  \/ ClearOverdue /\ Step
  \/ SetProgress /\ Step
  \/ WeekChange /\ Step

Spec == Init /\ [][Next]_vars

----------------------------------------------------------------------------
(* The store under the form and the project registry's callers *)

\* addProject(name), called by the component that holds the hook
CallAddProject ==
  \E name \in ProjectNames :
    /\ projects' = registerProject(seen, projects, name)
    /\ last' = LastNamed("addProject", NoStr, name)
    /\ UNCHANGED <<tasks, nextId, tz, hour, selectedDate>>

\* deleteProject(name), called by the component that holds the hook
CallDeleteProject ==
  \E name \in ProjectNames :
    /\ projects' = deleteProject(projects, name)
    /\ last' = LastNamed("deleteProject", NoStr, name)
    /\ UNCHANGED <<tasks, nextId, tz, hour, selectedDate>>

\* updateTask(id, {projectName}), called with the id of a stored task or with an id
\* that no task has
CallUpdateTask ==
  \E id \in {tasks[i].id : i \in DOMAIN tasks} \cup {Uuid(0)}, name \in ProjectNames :
    /\ tasks' = updateTask(tasks, id, [projectName |-> name])
    /\ projects' = registerProject(seen, projects, name)
    /\ last' = LastNamed("updateTask", id, name)
    /\ UNCHANGED <<nextId, tz, hour, selectedDate>>

\* one more call made by the event handler that is running: the component has not
\* rendered again, and the hook's functions are still the ones of the last render
Call ==
  /\ status = "loaded"
  /\ steps < MaxSteps
  /\ steps' = steps + 1
  /\ registry' = saved(registry, projects, projects')
  /\ UNCHANGED <<seen, storage, status, filters>>

\* the event handler returns and the component renders with the state as it is now
Render ==
  /\ status = "loaded"
  /\ seen # projects
  /\ seen' = projects
  /\ UNCHANGED <<tasks, projects, storage, status, nextId, tz, hour, selectedDate, last, steps,
                 filters, registry>>

StoreNext ==
  \/ Create(ProjectForms) /\ Step
  \/ Edit(ProjectForms) /\ Step
  \/ SubmitBlocked /\ Step
  \/ ToggleWeekCard /\ Step
  \/ DeleteCard /\ Step
  \/ DeleteHistory /\ Step
  \/ CallAddProject /\ Call
  \/ CallUpdateTask /\ Call
  \/ CallDeleteProject /\ Call
  \/ Render

StoreSpec == Init /\ [][StoreNext]_vars

----------------------------------------------------------------------------
(* The project registry across the hook's instances *)

\* the registries a session may start on
SavedRegistries == {<<>>, <<"p">>, <<"p", "q">>}

\* what the form holds at submit: a title, no project or one of the selector's list,
\* and 'recurring' off or on with the day buttons untouched or set
RegistryForms ==
  [title : {"t"}, priority : {"Medium"}, durationCategory : {"short"},
   projectName : {Undefined} \cup Range(registry.select), isRecurring : BOOLEAN,
   recurringDays : {{}} \cup FormDaySets, dueDate : {NoStamp}]

\* the app starts with no tasks on a saved registry, the form closed
RegistryInit ==
  /\ tasks = <<>>
  /\ projects \in SavedRegistries
  /\ seen = projects
  /\ status = startUp("array", "array")
  /\ storage = storageAfter("array", "array")
  /\ nextId = 1
  /\ tz = 0
  /\ hour \in Hours
  /\ selectedDate = startOfDay(At(0))
  /\ last = [op |-> "init", id |-> NoStr, arg |-> NoStr, name |-> Undefined,
             pre |-> <<>>, prePs |-> <<>>]
  /\ steps = 0
  /\ filters = [project |-> AllFilter, priority |-> AllFilter]
  /\ registry = [blob |-> projects, select |-> <<>>, open |-> FALSE, gone |-> {}]

\* 'New Task': the form mounts, and ProjectSelect's useTasks() reads the 'projects'
\* key into its own state
OpenForm ==
  /\ ~registry.open
  /\ registry' = [registry EXCEPT !.open = TRUE, !.select = registry.blob]
  /\ last' = Last("openForm", NoStr, NoStr)
  /\ UNCHANGED <<tasks, projects, nextId>>

\* ProjectSelect.handleAddProject: addProject(name) on the selector's instance, whose
\* save effect writes its list
SelectAdd ==
  \E name \in ProjectNames :
    /\ registry.open
    /\ registry' =
         [saved(registry, registry.select,
                registerProject(registry.select, registry.select, name))
            EXCEPT !.select = registerProject(registry.select, registry.select, name),
                   !.gone = @ \ {name}]
    /\ last' = LastNamed("addProject", NoStr, name)
    /\ UNCHANGED <<tasks, projects, nextId>>

\* ProjectSelect.handleDeleteProject on a row of the selector's list
SelectDelete ==
  \E i \in DOMAIN registry.select :
    /\ registry.open
    /\ registry' =
         [saved(registry, registry.select, deleteProject(registry.select, registry.select[i]))
            EXCEPT !.select = deleteProject(registry.select, registry.select[i]),
                   !.gone = @ \cup {registry.select[i]}]
    /\ last' = LastNamed("deleteProject", NoStr, registry.select[i])
    /\ UNCHANGED <<tasks, projects, nextId>>

\* the form is submitted: App.handleFormSubmit -> addTask on App's instance, whose
\* save effect writes App's list; the form unmounts, and what TaskForm.handleSubmit
\* added to its own instance goes with it
SubmitForm ==
  /\ registry.open
  /\ Create(RegistryForms)
  /\ registry' =
       [saved(registry, projects, projects')
          EXCEPT !.open = FALSE, !.select = <<>>, !.gone = @ \ {last'.name}]

\* 'Cancel': the form unmounts
CancelForm ==
  /\ registry.open
  /\ registry' = [registry EXCEPT !.open = FALSE, !.select = <<>>]
  /\ last' = Last("cancelForm", NoStr, NoStr)
  /\ UNCHANGED <<tasks, projects, nextId>>

\* App renders after every handler
Turn ==
  /\ status = "loaded"
  /\ seen' = projects'
  /\ UNCHANGED <<storage, status, steps, filters, tz, hour, selectedDate>>

RegistryNext ==
  \/ OpenForm /\ Turn
  \/ SelectAdd /\ Turn
  \/ SelectDelete /\ Turn
  \/ SubmitForm /\ Turn
  \/ CancelForm /\ Turn

RegistrySpec == RegistryInit /\ [][RegistryNext]_vars

----------------------------------------------------------------------------
(* Properties *)

\* the task the last handler was called for, as it was before and as it is now
PreOf(i) == last.pre[i]
SameShape == Len(tasks) = Len(last.pre)
\* the row of the current week's grid that shows Today
TodayIndex == CHOOSE i \in 1..DAYS_OF_WEEK : weekDays(Now)[i].dateStr = DateStamp(Today)
\* a recurring task due on Today's weekday that nothing has been done to
FreshToday(t) ==
  /\ t.recurrence.on
  /\ (Today % DAYS_OF_WEEK) \in t.recurrence.days
  /\ t.completions = <<>>
  /\ ~t.completed
\* the entries of the completed history that come from the task with id
historyOf(ts, id) ==
  {k \in DOMAIN allCompletedTasks(ts) : allCompletedTasks(ts)[k].id.groups = id.groups}
\* the last step toggled an occurrence (a date was passed) of a recurring task
\* that had no completion for that date
ToggledOpenOccurrence(i) ==
  /\ last.op = "toggle"
  /\ IsDateText(last.arg)
  /\ PreOf(i).id = last.id
  /\ PreOf(i).recurrence.on
  /\ findIndex(PreOf(i).completions, DatePart(last.arg.stamp)) = 0

\* C1: toggleTask(id, d) on a recurring task with no completion for d appends
\* exactly one completion whose calendar-date component is d, at every hour and
\* in every time zone, and leaves the completions for other dates as they were.
C1_ToggleAppendsCompletionDatedD ==
  \A i \in DOMAIN last.pre :
    ToggledOpenOccurrence(i) =>
      /\ SameShape
      /\ Len(tasks[i].completions) = Len(PreOf(i).completions) + 1
      /\ SubSeq(tasks[i].completions, 1, Len(PreOf(i).completions)) = PreOf(i).completions
      /\ tasks[i].completions[Len(tasks[i].completions)].d = last.arg.stamp.d

\* C2: whatever sequence of operations ran, no task's completions hold two
\* entries with the same calendar-date component.
C2_CompletionsUniquePerDate ==
  \A i \in DOMAIN tasks :
    \A j, k \in DOMAIN tasks[i].completions :
      j # k => tasks[i].completions[j].d # tasks[i].completions[k].d

\* C3: a recurring task due on today's weekday with no completions is shown in
\* today's bucket under its duration category; once toggleTask(id, today) has
\* run it is gone from today's buckets and the completed history shows it
\* exactly once, with a completedDate on today.
C3_RecurringShownThenCompletedToday ==
  /\ \A i \in DOMAIN tasks :
       FreshToday(tasks[i]) =>
         Card(tasks[i], DateStr(Today))
           \in Range(dayBucket(tasks, Now, TodayIndex, bucketOf(tasks[i])))
  /\ \A i \in DOMAIN last.pre :
       (ToggledOpenOccurrence(i) /\ last.arg = DateStr(Today) /\ FreshToday(PreOf(i))) =>
         /\ \A b \in Buckets :
              \A c \in Range(dayBucket(tasks, Now, TodayIndex, b)) : c.task.id # last.id
         /\ Cardinality(historyOf(tasks, last.id)) = 1
         /\ \A k \in historyOf(tasks, last.id) :
              /\ truthy(allCompletedTasks(tasks)[k].completedDate)
              /\ LocalDay(NewDate(allCompletedTasks(tasks)[k].completedDate)) = Today

\* C4: in every reachable state every non-recurring completed task has
\* progress 100.
C4_CompletedMeansFullProgress ==
  \A i \in DOMAIN tasks :
    (~tasks[i].recurrence.on /\ tasks[i].completed) => tasks[i].progress = 100

\* C5: toggling an entry of the completed history reaches the stored task it was
\* derived from: a synthetic entry `${taskId}-${completion}` removes exactly that
\* completion from its parent task, a plain completed task becomes not completed.
C5_HistoryToggleReachesTask ==
  last.op = "historyToggle" =>
    /\ SameShape
    /\ \A i \in DOMAIN last.pre :
         PreOf(i).id.groups = last.id.groups =>
           IF truthy(last.id.stamp)
           THEN \E k \in DOMAIN PreOf(i).completions :
                  /\ PreOf(i).completions[k] = last.id.stamp
                  /\ tasks[i].completions = splice(PreOf(i).completions, k)
           ELSE ~tasks[i].completed

\* C6: deleting an entry of the completed history removes exactly the stored
\* task it resolves to: the task itself for a plain entry, the recurring parent
\* for a synthetic one.
C6_HistoryDeleteRemovesTask ==
  last.op = "historyDelete" =>
    tasks = deleteTask(last.pre, Str(last.id.groups, NoStamp))

\* the last step dropped a non-recurring task on a drop target of App's DndContext
DroppedRegular(i) ==
  /\ last.op = "drag"
  /\ PreOf(i).id = last.id
  /\ ~PreOf(i).recurrence.on
\* the ids of WeekView's day zones: `${dateStr}:short` and `${dateStr}:time-consuming`
IsDayZone(over) == over.suffix \in {":short", ":time-consuming"}

\* C7: a legal move of a non-recurring task lands in the target bucket: dropped
\* on a day zone for a date d other than its dueDate, its dueDate becomes d and
\* it is shown on d; dropped on the unscheduled zone, its dueDate is cleared and
\* it is shown in the unscheduled list.
C7_MovePlacesTaskInTarget ==
  \A i \in DOMAIN last.pre :
    DroppedRegular(i) =>
      /\ (IsDayZone(last.arg) /\ PreOf(i).dueDate # last.arg.date) =>
           /\ SameShape
           /\ tasks[i].dueDate = last.arg.date
           /\ ~tasks[i].completed =>
                \E d \in 1..DAYS_OF_WEEK :
                  /\ weekDays(selectedDate)[d].dateStr = last.arg.date
                  /\ inDay(tasks[i], weekDays(selectedDate)[d])
      /\ last.arg = UnscheduledZone =>
           /\ SameShape
           /\ tasks[i].dueDate = NoStamp
           /\ ~tasks[i].completed => tasks[i] \in Range(unscheduledTasks(tasks))

\* the last step was a move intent (a drop on a date or on the unscheduled
\* zone, through either grid) on a recurring task
MovedRecurring(i) ==
  /\ last.op \in {"drag", "move"}
  /\ PreOf(i).id = last.id
  /\ PreOf(i).recurrence.on

\* C8: a move intent on a recurring task, to a date or to the unscheduled zone,
\* is rejected: no field of that task changes and no other task changes.
C8_RecurringMoveRejected ==
  (\E i \in DOMAIN last.pre : MovedRecurring(i)) => tasks = last.pre

\* C8 happens: a recurring task was dropped on a date of the grid
C8_RecurringMoved ==
  \E i \in DOMAIN last.pre :
    /\ MovedRecurring(i)
    /\ last.op = "move"
    /\ truthy(last.arg.date)

\* C9: in every state the user intents reach, no stored task has both a dueDate
\* and a recurrence.
C9_NeverDatedAndRecurring ==
  \A i \in DOMAIN tasks : ~(truthy(tasks[i].dueDate) /\ tasks[i].recurrence.on)

\* C9 happens: a task that had a due date was edited into a recurring one
C9_DatedTaskMadeRecurring ==
  /\ last.op = "edit"
  /\ SameShape
  /\ \E i \in DOMAIN last.pre :
       /\ PreOf(i).id = last.id
       /\ truthy(PreOf(i).dueDate)
       /\ tasks[i].recurrence.on

\* the last step was toggleTask(id) on a non-recurring task that was not completed
ToggledRegularOpen(i) ==
  /\ last.op = "toggle"
  /\ last.arg = NoStr
  /\ PreOf(i).id = last.id
  /\ ~PreOf(i).recurrence.on
  /\ ~PreOf(i).completed

\* C10: for a non-recurring task that starts not completed, toggleTask(id)
\* twice in succession ends with completed = false and completedDate cleared:
\* after the first call, the second one leaves the task so.
C10_ToggleTwiceClears ==
  \A i \in DOMAIN last.pre :
    ToggledRegularOpen(i) =>
      /\ SameShape
      /\ tasks[i].completed
      /\ LET twice == toggleTask(tasks, last.id, NoStr, Now)
         IN /\ ~twice[i].completed
            /\ twice[i].completedDate = NoStamp

\* C10 happens: a dated task with some progress was toggled to completed
C10_RegularToggled ==
  \E i \in DOMAIN last.pre :
    /\ ToggledRegularOpen(i)
    /\ SameShape
    /\ tasks[i].completed
    /\ truthy(tasks[i].completedDate)
    /\ truthy(tasks[i].dueDate)
    /\ tasks[i].progress # NoProgress

\* how many cards of day i of the week of sel show the task with id, tagged with
\* that day's date
occurrencesOn(ts, sel, i, id) ==
  LET tag == Str(<<>>, weekDays(sel)[i].dateStr)
      count(b) == Cardinality({k \in DOMAIN dayBucket(ts, sel, i, b) :
                                 /\ dayBucket(ts, sel, i, b)[k].task.id = id
                                 /\ dayBucket(ts, sel, i, b)[k].virtualDate = tag})
  IN count("short") + count("long")

\* C11: for every stored recurring task and every date d of the viewed week whose
\* weekday is in recurrence.days, the week projection holds exactly one occurrence
\* of the task tagged with d, unless its completions hold an entry dated d (then
\* none); this also for a task whose template was toggled without a date.
C11_OneOccurrencePerOpenDate ==
  status = "loaded" =>
    \A k \in DOMAIN tasks :
      tasks[k].recurrence.on =>
        \A i \in 1..DAYS_OF_WEEK :
          LET day == weekDays(selectedDate)[i]
              done == \E c \in DOMAIN tasks[k].completions :
                        tasks[k].completions[c].d = day.dateStr.d
          IN day.dayIndex \in tasks[k].recurrence.days =>
               occurrencesOn(tasks, selectedDate, i, tasks[k].id) = (IF done THEN 0 ELSE 1)

\* a blob the start-up read cannot use: not JSON, or JSON of another shape
Unreadable(blob) == blob \in {"malformed", "object"}

\* C12: when the stored tasks blob or projects blob cannot be read, or does not
\* parse as the expected shape, at start-up, the store starts with no tasks and no
\* projects instead of failing to load.
C12_UnreadableStorageLoadsEmpty ==
  (steps = 0 /\ (Unreadable(storage.tasks) \/ Unreadable(storage.projects))) =>
    /\ status = "loaded"
    /\ tasks = <<>>
    /\ projects = <<>>

----------------------------------------------------------------------------
(* The projections over a task list loaded from localStorage *)

\* how many tasks the loaded list holds at most
MaxStored == 2

PriorityValues == {"Constant", "High", "Medium", "Low"}
\* what a stored task's durationCategory holds; tasks saved by the form without
\* the duration buttons have none
StoredDurations == {"short", "time-consuming", Undefined}

\* the tasks of a list loaded for the unscheduled list: tasks with no date of every
\* priority, and one task each with a date, with a recurrence, completed
ListShapes ==
  [kind : {"none"}, priority : PriorityValues, durationCategory : {"short"}]
    \cup [kind : {"due", "weekly", "done"}, priority : {"Medium"}, durationCategory : {"short"}]

\* the tasks of a list loaded for the week grid: tasks due today of every priority
\* and duration, a recurring task, a task with no date
GridShapes ==
  [kind : {"due"}, priority : PriorityValues, durationCategory : {"short", "time-consuming"}]
    \cup [kind : {"due"}, priority : {"Medium"}, durationCategory : {Undefined}]
    \cup [kind : {"weekly"}, priority : {"High"}, durationCategory : {"time-consuming"}]
    \cup [kind : {"none"}, priority : {"Medium"}, durationCategory : {"short"}]

\* a task as the app saved it: created by addTask, a completed one toggled since
storedTask(shape, id, now) ==
  LET t == newTask([title |-> "t",
                    priority |-> shape.priority,
                    durationCategory |-> shape.durationCategory,
                    projectName |-> IF "projectName" \in DOMAIN shape
                                    THEN shape.projectName
                                    ELSE Undefined,
                    recurrence |-> IF shape.kind = "weekly"
                                   THEN Weekly({Today % DAYS_OF_WEEK})
                                   ELSE NoRecurrence,
                    dueDate |-> CASE shape.kind = "due" -> DateStamp(Today)
                                  [] shape.kind \in {"late", "lateDone"} -> DateStamp(Today - 1)
                                  [] shape.kind = "lateIso" -> toISOString(now - 24)
                                  [] OTHER -> NoStamp],
                   id, now)
  IN IF shape.kind \in {"done", "lateDone"} THEN toggleOne(t, NoStr, now) ELSE t

\* JSON.parse of the tasks key: the lists of at most MaxStored tasks of shapes
StoredLists(shapes, now) ==
  UNION {{[i \in 1..n |-> storedTask(f[i], Uuid(i), now)] : f \in [1..n -> shapes]} :
           n \in 0..MaxStored}

\* the app starts on a saved task list
ViewInit ==
  /\ tz = 0
  /\ hour \in Hours
  /\ tasks \in StoredLists(ListShapes, Now) \cup StoredLists(GridShapes, Now)
  /\ projects = <<>>
  /\ seen = <<>>
  /\ status = startUp("array", "null")
  /\ storage = storageAfter("array", "null")
  /\ nextId = Len(tasks) + 1
  /\ selectedDate = startOfDay(At(0))
  /\ last = [op |-> "init", id |-> NoStr, arg |-> NoStr, name |-> Undefined,
             pre |-> <<>>, prePs |-> <<>>]
  /\ steps = 0
  /\ filters = [project |-> AllFilter, priority |-> AllFilter]
  /\ registry = [blob |-> <<>>, select |-> <<>>, open |-> FALSE, gone |-> {}]

\* looking at another week is no change of the store
Look ==
  /\ status = "loaded"
  /\ UNCHANGED <<seen, storage, status, steps, filters, registry>>

ViewNext == WeekChange /\ Look

ViewSpec == ViewInit /\ [][ViewNext]_vars

----------------------------------------------------------------------------
(* The overdue banner over a loaded task list *)

\* the tasks of a list loaded for the banner: due yesterday (as the date input wrote
\* it, as "Move to Today" wrote it the day before, and completed), due today,
\* recurring, without date
BannerShapes ==
  [kind : {"late", "lateIso", "lateDone", "due", "weekly", "none"},
   priority : {"Medium"}, durationCategory : {"short"}]

\* the app starts on a saved task list, in any of the time zones and hours
BannerInit ==
  /\ tz \in TzOffsets
  /\ hour \in Hours
  /\ tasks \in StoredLists(BannerShapes, Now)
  /\ projects = <<>>
  /\ seen = <<>>
  /\ status = startUp("array", "null")
  /\ storage = storageAfter("array", "null")
  /\ nextId = Len(tasks) + 1
  /\ selectedDate = startOfDay(At(0))
  /\ last = [op |-> "init", id |-> NoStr, arg |-> NoStr, name |-> Undefined,
             pre |-> <<>>, prePs |-> <<>>]
  /\ steps = 0
  /\ filters = [project |-> AllFilter, priority |-> AllFilter]
  /\ registry = [blob |-> <<>>, select |-> <<>>, open |-> FALSE, gone |-> {}]

BannerNext ==
  \/ MoveOverdue /\ Step
  \/ ClearOverdue /\ Step
  \/ WeekChange /\ Step

BannerSpec == BannerInit /\ [][BannerNext]_vars

----------------------------------------------------------------------------
(* The check boxes over a loaded task list *)

\* the tasks of a list loaded for the check boxes: completed, recurring, due today,
\* without date
HistoryShapes ==
  [kind : {"done", "weekly", "due", "none"}, priority : {"Medium"}, durationCategory : {"short"}]

\* the app starts on a saved task list, in any of the time zones and hours
HistoryInit ==
  /\ tz \in TzOffsets
  /\ hour \in Hours
  /\ tasks \in StoredLists(HistoryShapes, Now)
  /\ projects = <<>>
  /\ seen = <<>>
  /\ status = startUp("array", "null")
  /\ storage = storageAfter("array", "null")
  /\ nextId = Len(tasks) + 1
  /\ selectedDate = startOfDay(At(0))
  /\ last = [op |-> "init", id |-> NoStr, arg |-> NoStr, name |-> Undefined,
             pre |-> <<>>, prePs |-> <<>>]
  /\ steps = 0
  /\ filters = [project |-> AllFilter, priority |-> AllFilter]
  /\ registry = [blob |-> <<>>, select |-> <<>>, open |-> FALSE, gone |-> {}]

HistoryNext ==
  \/ ToggleCard /\ Step
  \/ ToggleWeekCard /\ Step
  \/ ToggleHistory /\ Step

HistorySpec == HistoryInit /\ [][HistoryNext]_vars

----------------------------------------------------------------------------
(* The filters over a loaded task list *)

\* the project names of the loaded tasks: none, "p", and a project the user named
\* "No Project" in ProjectSelect's input
FilterProjects == {Undefined, "p", "No Project"}
\* the priorities of the loaded tasks
FilterPriorities == {"High", "Low"}

\* the tasks of a list loaded for the filters: without date, due today, due
\* yesterday, completed; High in any project, Low without project
FilterShapes ==
  [kind : {"none", "due", "late", "done"}, priority : {"High"},
   durationCategory : {"short"}, projectName : FilterProjects]
    \cup [kind : {"none", "due", "late", "done"}, priority : {"Low"},
          durationCategory : {"short"}, projectName : {Undefined}]

\* the registry addTask built while the tasks of ts were created
registryOf(ts) ==
  LET F[n \in 0..Len(ts)] ==
        IF n = 0 THEN <<>> ELSE registerProject(F[n - 1], F[n - 1], ts[n].projectName)
  IN F[Len(ts)]

\* the app starts on a saved task list and the registry of its projects
FilterInit ==
  /\ tz = 0
  /\ hour \in Hours
  /\ tasks \in StoredLists(FilterShapes, Now)
  /\ projects = registryOf(tasks)
  /\ seen = projects
  /\ status = startUp("array", "array")
  /\ storage = storageAfter("array", "array")
  /\ nextId = Len(tasks) + 1
  /\ selectedDate = startOfDay(At(0))
  /\ last = [op |-> "init", id |-> NoStr, arg |-> NoStr, name |-> Undefined,
             pre |-> <<>>, prePs |-> <<>>]
  /\ steps = 0
  /\ filters = [project |-> AllFilter, priority |-> AllFilter]
  /\ registry = [blob |-> projects, select |-> <<>>, open |-> FALSE, gone |-> {}]

\* the options of the project filter's <select>: what the user sees and picks
\* (pick, name) and the value the option carries
ProjectOptions ==
  {[pick |-> "filterAll", name |-> Undefined, value |-> AllFilter],
   [pick |-> "filterNone", name |-> Undefined, value |-> NoProjectFilter]}
    \cup {[pick |-> "filterProject", name |-> projects[i], value |-> projects[i]] :
            i \in DOMAIN projects}

\* the project filter's onChange: setProjectFilter(e.target.value)
PickProject ==
  \E o \in ProjectOptions :
    /\ filters' = [filters EXCEPT !.project = o.value]
    /\ last' = LastNamed(o.pick, NoStr, o.name)
    /\ UNCHANGED <<tasks, projects, nextId, tz, hour, selectedDate>>

\* the priority filter's onChange: setPriorityFilter(e.target.value); the project
\* picked before stays picked
PickPriority ==
  \E v \in {AllFilter} \cup FilterPriorities :
    /\ filters' = [filters EXCEPT !.priority = v]
    /\ last' = IF last.op = "init" THEN LastNamed("filterAll", NoStr, Undefined) ELSE last
    /\ UNCHANGED <<tasks, projects, nextId, tz, hour, selectedDate>>

\* changing a filter is no change of the store
Pick ==
  /\ status = "loaded"
  /\ UNCHANGED <<seen, storage, status, steps, registry>>

FilterNext ==
  \/ PickProject /\ Pick
  \/ PickPriority /\ Pick

FilterSpec == FilterInit /\ [][FilterNext]_vars

----------------------------------------------------------------------------
(* The store's operations: validation, unknown ids, the project registry *)

C14_UnknownIdIsNoOp ==
  (last.op = "updateTask" /\ findTask(last.pre, last.id) = 0) =>
    (tasks = last.pre /\ projects = last.prePs)

\* the id the last delete handed to deleteTask
deletedId ==
  IF last.op = "historyDelete" /\ includesHyphen(last.id)
  THEN beforeFirstHyphen(last.id)
  ELSE last.id

\* C15: deleteTask removes the tasks with the id and keeps every other task as it
\* was and where it was; with an id that no task has it changes nothing, and a
\* second call with the same id changes nothing more.
C15_DeleteIdempotent ==
  last.op \in {"delete", "historyDelete"} =>
    /\ tasks = Filter(last.pre, {t \in Range(last.pre) : t.id # deletedId})
    /\ findTask(last.pre, deletedId) = 0 => tasks = last.pre
    /\ deleteTask(tasks, deletedId) = tasks

\* deleteTask was called with an id that no stored task has, tasks being stored
C15_DeletedMissingId ==
  /\ last.op \in {"delete", "historyDelete"}
  /\ findTask(last.pre, deletedId) = 0
  /\ Len(last.pre) > 0

\* C16: no name is twice in the project registry.
C16_NoDuplicateProjects ==
  \A i, j \in DOMAIN projects : projects[i] = projects[j] => i = j

\* C17: deleteProject(name) leaves a registry without name and with every other
\* name it had, and leaves the tasks as they were, project names included.
C17_DeleteProjectKeepsTasks ==
  last.op = "deleteProject" =>
    /\ Range(projects) = Range(last.prePs) \ {last.name}
    /\ tasks = last.pre

\* a registered project that a stored task names was deleted
C17_DeletedReferencedProject ==
  /\ last.op = "deleteProject"
  /\ last.name \in Range(last.prePs)
  /\ \E i \in DOMAIN tasks : tasks[i].projectName = last.name


\* C18: creating a task appends one task with a fresh id, a creation time and the
\* defaults completed = false, completions = [], progress = 0, keeps the tasks
\* there were, and registers the task's project when it names one that is not
\* registered.
C18_CreateAppendsDefaults ==
  last.op = "create" =>
    /\ Len(tasks) = Len(last.pre) + 1
    /\ SubSeq(tasks, 1, Len(last.pre)) = last.pre
    /\ tasks[Len(tasks)].id = last.id
    /\ \A i \in DOMAIN last.pre : last.pre[i].id # last.id
    /\ truthy(tasks[Len(tasks)].createdAt)
    /\ tasks[Len(tasks)].completed = FALSE
    /\ tasks[Len(tasks)].completions = <<>>
    /\ tasks[Len(tasks)].progress = 0
    /\ projects = IF last.name # Undefined /\ last.name \notin Range(last.prePs)
                  THEN Append(last.prePs, last.name)
                  ELSE last.prePs

----------------------------------------------------------------------------
(* The order and the content of the lists on screen *)

\* the priorities from first shown to last shown
PriorityOrder == <<"Constant", "High", "Medium", "Low">>
rankOf(p) == CHOOSE k \in DOMAIN PriorityOrder : PriorityOrder[k] = p
\* a task's order field, a missing one counting as 0
orderOf(t) == IF t.order = NoOrder THEN 0 ELSE t.order
\* t comes before u by priority, then by order, then by place in the stored list
ShownBefore(t, u) ==
  \/ rankOf(t.priority) < rankOf(u.priority)
  \/ /\ t.priority = u.priority
     /\ orderOf(t) < orderOf(u)
  \/ /\ t.priority = u.priority
     /\ orderOf(t) = orderOf(u)
     /\ findTask(tasks, t.id) < findTask(tasks, u.id)

\* C19: the unscheduled list holds exactly the stored tasks that are not completed,
\* not recurring and have no due date, each once, by priority Constant, High,
\* Medium, Low, and tasks of one priority in the order they are stored in.
C19_UnscheduledBucket ==
  LET u == unscheduledTasks(tasks)
      want == {t \in Range(tasks) : ~t.completed /\ ~t.recurrence.on /\ ~truthy(t.dueDate)}
  IN /\ Range(u) = want
     /\ Len(u) = Cardinality(want)
     /\ \A a, b \in DOMAIN u : a < b => ShownBefore(u[a], u[b])

\* the unscheduled list shows two tasks in another order than they are stored in
C19_UnscheduledReordered ==
  LET u == unscheduledTasks(tasks)
  IN /\ status = "loaded"
     /\ \E a, b \in DOMAIN u :
          a < b /\ findTask(tasks, u[a].id) > findTask(tasks, u[b].id)

\* the tasks on the cards of a sub-bucket
tasksOf(cards) == [k \in DOMAIN cards |-> cards[k].task]

----------------------------------------------------------------------------
(* The overdue banner and its bulk actions *)

\* the local calendar day a due date stands for
dueDay(s) == IF s.k = "date" THEN s.d ELSE LocalDay(NewDate(s))

\* the tasks of ts that are due before today and neither completed nor recurring
dueBeforeToday(ts) ==
  {t \in Range(ts) : /\ truthy(t.dueDate)
                      /\ dueDay(t.dueDate) < Today
                      /\ ~t.completed
                      /\ ~t.recurrence.on}

\* C21: the overdue set holds exactly the tasks that are not completed, not
\* recurring and due on a day before today, each once, whichever week is viewed.
C21_OverdueSet ==
  status = "loaded" =>
    LET od == overdueTasks(tasks, Now)
    IN /\ Range(od) = dueBeforeToday(tasks)
       /\ Len(od) = Cardinality(dueBeforeToday(tasks))
       /\ last.op = "week" => od = overdueTasks(last.pre, Now)

\* another week is viewed, a task due yesterday is overdue and a completed task due
\* yesterday is stored
C21_OverdueWhileAnotherWeek ==
  /\ status = "loaded"
  /\ last.op = "week"
  /\ selectedDate # startOfDay(Now)
  /\ Len(overdueTasks(tasks, Now)) > 0
  /\ \E i \in DOMAIN tasks :
       tasks[i].completed /\ truthy(tasks[i].dueDate) /\ dueDay(tasks[i].dueDate) < Today

\* C23: after "Move to Today" every task that was overdue has a due date on today
\* and is otherwise as it was, no task is overdue, and every task that was not
\* overdue is unchanged.
C23_MoveOverdueToToday ==
  last.op = "moveOverdue" =>
    /\ Len(tasks) = Len(last.pre)
    /\ \A i \in DOMAIN last.pre :
         IF last.pre[i] \in dueBeforeToday(last.pre)
         THEN /\ truthy(tasks[i].dueDate)
              /\ dueDay(tasks[i].dueDate) = Today
              /\ tasks[i] = [last.pre[i] EXCEPT !.dueDate = tasks[i].dueDate]
         ELSE tasks[i] = last.pre[i]
    /\ overdueTasks(tasks, Now) = <<>>

\* "Move to Today" moved a task and left another alone, at an hour at which the UTC
\* date is not the local one
C23_MovedSomeNotAll ==
  /\ last.op = "moveOverdue"
  /\ toISOString(Now).d # Today
  /\ \E i \in DOMAIN last.pre : last.pre[i] \in dueBeforeToday(last.pre)
  /\ \E i \in DOMAIN last.pre : last.pre[i] \notin dueBeforeToday(last.pre)

\* C24: "Clear All" deletes nothing and changes nothing when the user declines,
\* and deletes exactly the overdue tasks, leaving the others as they were, when
\* the user confirms.
C24_ClearOverdueNeedsConfirm ==
  /\ last.op = "clearDeclined" => tasks = last.pre
  /\ last.op = "clearOverdue" =>
       tasks = Filter(last.pre, Range(last.pre) \ dueBeforeToday(last.pre))

\* "Clear All" was confirmed and deleted some tasks and kept others
C24_ClearedSomeNotAll ==
  /\ last.op = "clearOverdue"
  /\ Len(tasks) > 0
  /\ Len(tasks) < Len(last.pre)

----------------------------------------------------------------------------
(* The completed history *)

\* the entries of history h that stand for completion c of the recurring task t
entriesFor(h, t, c) ==
  {k \in DOMAIN h : /\ h[k].id = CompositeId(t.id, c)
                    /\ h[k].completed
                    /\ h[k].completedDate = c
                    /\ ~h[k].recurrence.on
                    /\ ~truthy(h[k].dueDate)}

\* C22: the completed history holds every completed non-recurring task once and,
\* for every recurring task, one synthetic entry per entry of its completions
\* (completed, its completedDate that timestamp, no recurrence and no due date),
\* latest completed timestamp first.
C22_CompletedHistory ==
  status = "loaded" =>
    LET h == allCompletedTasks(tasks)
    IN /\ \A i \in DOMAIN tasks :
            (tasks[i].completed /\ ~tasks[i].recurrence.on) =>
              Cardinality({k \in DOMAIN h : h[k] = tasks[i]}) = 1
       /\ \A i \in DOMAIN tasks :
            tasks[i].recurrence.on =>
              \A c \in Range(tasks[i].completions) :
                Cardinality(entriesFor(h, tasks[i], c)) =
                  Cardinality({j \in DOMAIN tasks[i].completions :
                                 tasks[i].completions[j] = c})
       /\ \A a, b \in DOMAIN h :
            a < b => NewDate(h[a].completedDate) >= NewDate(h[b].completedDate)

\* the history shows a completed task and the completion of a recurring task
C22_HistoryOfBothKinds ==
  /\ status = "loaded"
  /\ \E i \in DOMAIN tasks : tasks[i].completed /\ ~tasks[i].recurrence.on
  /\ \E i \in DOMAIN tasks : tasks[i].recurrence.on /\ Len(tasks[i].completions) > 0
  /\ \E a, b \in DOMAIN allCompletedTasks(tasks) :
       allCompletedTasks(tasks)[a].completedDate # allCompletedTasks(tasks)[b].completedDate

----------------------------------------------------------------------------
(* The filters *)

\* the task is one the user asked for: of the project picked in the project filter
\* (any, none, or the project of that name) and of the priority picked
wanted(t) ==
  /\ last.op = "filterProject" => t.projectName = last.name
  /\ last.op = "filterNone" => t.projectName \in {Undefined, ""}
  /\ filters.priority # AllFilter => t.priority = filters.priority

\* C25: with a project of the registry, the no-project entry or 'all' picked in the
\* project filter and a priority or 'all' in the priority filter, every bucket
\* (unscheduled, week grid, overdue, completed history) holds exactly its tasks of
\* that project and that priority.
C25_FiltersSelectExactly ==
  last.op \in {"filterAll", "filterNone", "filterProject"} =>
    /\ Range(unscheduledTasks(tasks)) =
         {t \in Range(tasks) : /\ wanted(t)
                               /\ ~t.completed /\ ~t.recurrence.on /\ ~truthy(t.dueDate)}
    /\ {c.task : c \in weekCards(tasks, selectedDate)} =
         {t \in Range(tasks) :
            /\ wanted(t)
            /\ ~t.completed
            /\ \E i \in 1..DAYS_OF_WEEK : inDay(t, weekDays(selectedDate)[i])}
    /\ Range(overdueTasks(tasks, Now)) = {t \in dueBeforeToday(tasks) : wanted(t)}
    /\ Range(completedTasks(tasks)) = {t \in Range(tasks) : wanted(t) /\ t.completed}

----------------------------------------------------------------------------
(* Toggling an occurrence of a recurring task *)

\* the last handler was toggleTask(id, d) with a date d, and task i was the
\* recurring task of that id
ToggledOccurrence(i) ==
  /\ last.op = "toggle"
  /\ IsDateText(last.arg)
  /\ PreOf(i).id = last.id
  /\ PreOf(i).recurrence.on

\* the completions whose calendar-date component is not d, in their order
completionsOffDate(cs, d) ==
  LET F[n \in 0..Len(cs)] ==
        IF n = 0 THEN <<>>
        ELSE IF cs[n].d # d THEN Append(F[n - 1], cs[n]) ELSE F[n - 1]
  IN F[Len(cs)]

\* C26: toggleTask(id, d) on a recurring task changes nothing but that date's
\* completion record: the task's other fields stay as they were, so do its
\* completions for every other date, and so does every other task.
C26_ToggleOccurrenceTouchesOnlyItsDate ==
  (last.op = "toggle" /\ IsDateText(last.arg)
     /\ \E i \in DOMAIN last.pre : ToggledOccurrence(i)) =>
    /\ SameShape
    /\ \A i \in DOMAIN last.pre :
         IF ToggledOccurrence(i)
         THEN /\ [tasks[i] EXCEPT !.completions = <<>>]
                   = [PreOf(i) EXCEPT !.completions = <<>>]
              /\ completionsOffDate(tasks[i].completions, last.arg.stamp.d)
                   = completionsOffDate(PreOf(i).completions, last.arg.stamp.d)
         ELSE tasks[i] = PreOf(i)

\* C28: toggleTask(id, d) called twice in a row on a recurring task leaves its
\* completions as they were before the first call, at every hour and in every
\* time zone.
C28_ToggleTwiceRestores ==
  [][(/\ last.op = "toggle" /\ last'.op = "toggle"
      /\ IsDateText(last.arg)
      /\ last'.id = last.id /\ last'.arg = last.arg
      /\ \E i \in DOMAIN last.pre : ToggledOccurrence(i)) =>
       /\ Len(tasks') = Len(last.pre)
       /\ \A i \in DOMAIN last.pre :
            PreOf(i).id = last.id => tasks'[i].completions = PreOf(i).completions]_vars

----------------------------------------------------------------------------
(* The registry as one store *)

\* C27: a project deleted in the selector and not added since is neither under the
\* persisted 'projects' key nor in the projects list App offers in its filter.
C27_DeletedProjectStaysGone ==
  \A name \in registry.gone :
    /\ \A i \in DOMAIN registry.blob : registry.blob[i] # name
    /\ \A i \in DOMAIN projects : projects[i] # name

----------------------------------------------------------------------------
(* The projections of the stored tasks *)

\* the weeks the grid can be turned to: the one before the current week up to
\* MaxWeeksAhead after it
Weeks == {addDays(startOfDay(At(0)), DAYS_OF_WEEK * k) : k \in (0 - 1)..MaxWeeksAhead}

\* C29: with no filter set, every stored task that is not completed is in the
\* unscheduled list or in a day bucket of the grid of some week, a task saved as
\* recurring with no weekday included.
C29_ActiveTaskIsShown ==
  (filters.project = AllFilter /\ filters.priority = AllFilter) =>
    \A i \in DOMAIN tasks :
      ~tasks[i].completed =>
        \/ tasks[i] \in Range(unscheduledTasks(tasks))
        \/ \E sel \in Weeks : \E c \in weekCards(tasks, sel) : c.task = tasks[i]

\* the sub-buckets of the grid of the week of sel that hold a card of task t
gridCells(t, sel) ==
  {cell \in (1..DAYS_OF_WEEK) \X Buckets :
     \E c \in Range(dayBucket(tasks, sel, cell[1], cell[2])) : c.task = t}
inGrid(t) == \E sel \in Weeks : gridCells(t, sel) # {}
inUnscheduled(t) == t \in Range(unscheduledTasks(tasks))
inCompleted(t) == t \in Range(completedTasks(tasks))

\* C30: a stored task is in at most one of the unscheduled list, the day buckets and
\* the list of completed tasks; a task with a due date and no recurrence is in at
\* most one day of one week, and there in exactly one of the day's two sub-buckets;
\* a completed task is in no bucket of the active tasks.
C30_ProjectionsDisjoint ==
  \A i \in DOMAIN tasks :
    LET t == tasks[i]
    IN /\ ~(inUnscheduled(t) /\ inGrid(t))
       /\ ~(inUnscheduled(t) /\ inCompleted(t))
       /\ ~(inGrid(t) /\ inCompleted(t))
       /\ (truthy(t.dueDate) /\ ~t.recurrence.on) =>
            /\ \A sel \in Weeks : Cardinality(gridCells(t, sel)) <= 1
            /\ Cardinality({sel \in Weeks : gridCells(t, sel) # {}}) <= 1
       /\ t.completed => ~inUnscheduled(t) /\ ~inGrid(t)

\* a recurring task ticked in the list view is in the completed list, while a task
\* with a due date sits in one sub-bucket of one day
C30_CompletedRecurringBesideDated ==
  /\ last.op = "toggle"
  /\ \E i, j \in DOMAIN tasks :
       /\ tasks[i].recurrence.on /\ tasks[i].completed /\ inCompleted(tasks[i])
       /\ truthy(tasks[j].dueDate) /\ ~tasks[j].recurrence.on
       /\ Cardinality(gridCells(tasks[j], selectedDate)) = 1

====
